---- MODULE Spec2Model ----
(***************************************************************************)
(* Model of the freeLLM gateway (torontoai-hub/freeLLM): the dispatcher of *)
(* app/main.py, bearer authentication of app/auth.py and the two rate      *)
(* limiters of app/ratelimit (in-process and Redis).                       *)
(*                                                                         *)
(* Python strings that the code parses (Authorization header, model name,  *)
(* header values made by str()) are sequences of one-character strings.    *)
(* A request task is an element of the bag req; its pc is the await it is  *)
(* suspended at, and a step runs the task from one await to the next       *)
(* (asyncio runs tasks cooperatively on one event loop).  out is the HTTP response sent  *)
(* by the last step (NoResp if the step sent none).                        *)
(*                                                                         *)
(* The parts of the gateway that do not share state are run under          *)
(* specifications of their own: routing and the adapters' response model   *)
(* (RouteSpec), the Ollama stream translator (StreamSpec) and the model    *)
(* list with its cache (ModelsSpec).                                       *)
(***************************************************************************)
EXTENDS Integers, Sequences, FiniteSets, Bags, TLC

VARIABLES
    now,         \* time.time(): wall clock, whole seconds
    settings,    \* Settings: default_backend, enabled backends, rate_limit_store, tokens_json
    window,      \* MemoryRateLimiter._state: token -> TokenWindow
    redis,       \* Redis keys: key -> [count, exp]
    req,         \* request tasks in flight: bag of the handler's locals and pc
    out,         \* response sent by the last step
    admitted_m,  \* history: token -> calls admitted in the minute bucket of now
    admitted_d,  \* history: token -> calls admitted in the day bucket of now
    started,     \* history: requests that went to the Redis limiter so far
    dispatch,    \* one chat request on its way through resolve_backend and an adapter
    iterator,    \* one run of the Ollama adapter's streaming iterator
    mono,        \* time.monotonic() in ms
    model_cache, \* ProxyState.model_cache: expires, data
    listing,     \* GET /v1/models tasks in flight: bag of proxy_models' locals and pc
    listed       \* response sent by the last step of a GET /v1/models task

\* The variables the steps of the dispatcher and the limiters leave alone
other_vars == <<dispatch, iterator, mono, model_cache, listing, listed>>

gateway_vars == <<now, settings, window, redis, req, out,
                  admitted_m, admitted_d, started>>
route_vars == <<dispatch>>
stream_vars == <<iterator>>
models_vars == <<mono, model_cache, listing, listed>>

vars == <<now, settings, window, redis, req, out,
          admitted_m, admitted_d, started,
          dispatch, iterator, mono, model_cache, listing, listed>>

----------------------------------------------------------------------------
(* Bounds of the model *)

NReq == 2        \* request tasks in flight at once
MaxMinute == 1   \* the clock visits minutes 0..MaxMinute of day 0
MaxDay == 1      \* and then the first minute of days 1..MaxDay
RpmA == 2        \* limits of the token of the one-token configuration
RpdA == 3
RpmB == 2        \* limits of the second token of the two-token configuration
RpdB == 1
MaxModelLen == 2 \* characters of a model name after its prefix
MaxCalls == RpdA + 1   \* requests that go to the Redis limiter in one behaviour

(* Program constants *)

MINUTE == 60
DAY == 86400
MINUTE_TTL == 60
DAY_TTL == 86400

Max(a, b) == IF a >= b THEN a ELSE b

----------------------------------------------------------------------------
(* Python str operations used by the code *)

UpperChars == <<"A","B","C","D","E","F","G","H","I","J","K","L","M",
                "N","O","P","Q","R","S","T","U","V","W","X","Y","Z">>
LowerChars == <<"a","b","c","d","e","f","g","h","i","j","k","l","m",
                "n","o","p","q","r","s","t","u","v","w","x","y","z">>
DigitChars == <<"0","1","2","3","4","5","6","7","8","9">>

lower_char(c) ==
    IF \E i \in 1..26 : UpperChars[i] = c
    THEN LowerChars[CHOOSE i \in 1..26 : UpperChars[i] = c]
    ELSE c

\* str.lower()
lower(s) == [i \in 1..Len(s) |-> lower_char(s[i])]

\* str.startswith(p)
startswith(s, p) == Len(s) >= Len(p) /\ SubSeq(s, 1, Len(p)) = p

\* Faulty variant: what follows the last sep
split_last_tail(s, sep) ==
    LET i == CHOOSE k \in 1..Len(s) : s[k] = sep /\ \A j \in (k+1)..Len(s) : s[j] # sep
    IN SubSeq(s, i + 1, Len(s))

\* s.split(sep, 1)[1]: what follows the first sep (s holds one)
split_once_tail(s, sep) ==
    LET i == CHOOSE k \in 1..Len(s) : s[k] = sep /\ \A j \in 1..(k-1) : s[j] # sep
    IN SubSeq(s, i + 1, Len(s))

\* s.split(sep, 1)[0]
split_once_head(s, sep) ==
    LET i == CHOOSE k \in 1..Len(s) : s[k] = sep /\ \A j \in 1..(k-1) : s[j] # sep
    IN SubSeq(s, 1, i - 1)

RECURSIVE lstrip(_)
lstrip(s) == IF s # <<>> /\ Head(s) = " " THEN lstrip(Tail(s)) ELSE s

RECURSIVE rstrip(_)
rstrip(s) == IF s # <<>> /\ s[Len(s)] = " " THEN rstrip(SubSeq(s, 1, Len(s) - 1)) ELSE s

\* str.strip()
strip(s) == rstrip(lstrip(s))

\* str(n) for an int
RECURSIVE str_nat(_)
str_nat(n) == IF n < 10 THEN <<DigitChars[n + 1]>>
              ELSE str_nat(n \div 10) \o <<DigitChars[(n % 10) + 1]>>
str_int(n) == IF n < 0 THEN <<"-">> \o str_nat(0 - n) ELSE str_nat(n)

----------------------------------------------------------------------------
(* Configuration: app/settings.py *)

TokA == <<"k","1">>
TokB == <<"k","2">>
Tokens == {TokA, TokB}

TokenConfig(tok, rpm, rpd) == [token |-> tok, rpm |-> rpm, rpd |-> rpd]

\* TOKENS_JSON: one token, or two tokens of which the second has rpd < rpm
OneToken == (TokA :> TokenConfig(TokA, RpmA, RpdA))
TwoTokens == (TokA :> TokenConfig(TokA, 1, 1)) @@ (TokB :> TokenConfig(TokB, RpmB, RpdB))

OLLAMA == <<"o","l","l","a","m","a">>
VLLM == <<"v","l","l","m">>
Backends == {OLLAMA, VLLM}

Stores == {"memory", "redis"}

Settings(default_backend, enabled, store, tokens_json) ==
    [default_backend |-> default_backend, enabled |-> enabled,
     rate_limit_store |-> store, tokens_json |-> tokens_json]

\* Settings after validate_backends: the default backend is enabled
SettingsSet ==
    {Settings(OLLAMA, {OLLAMA}, "memory", OneToken),
     Settings(VLLM, Backends, "memory", TwoTokens)}

LimiterSettingsSet ==
    {Settings(OLLAMA, {OLLAMA}, store, tj) : store \in Stores, tj \in {OneToken, TwoTokens}}

\* TokenRegistry.get over the registry built from tokens_json
registry_get(registry, tok) ==
    IF tok \in DOMAIN registry THEN [found |-> TRUE, cfg |-> registry[tok]]
                               ELSE [found |-> FALSE, cfg |-> TokenConfig(<<>>, 0, 0)]

----------------------------------------------------------------------------
(* The wall clock *)

Times == {m * MINUTE + 59 : m \in 0..MaxMinute} \cup {d * DAY + 59 : d \in 1..MaxDay}

minute_bucket(t) == t \div MINUTE
day_bucket(t) == t \div DAY

----------------------------------------------------------------------------
(* In-process limiter: app/ratelimit/memory.py *)

TokenWindow0 == [minute_bucket |-> 0, minute_count |-> 0, day_bucket |-> 0, day_count |-> 0]

NoResult == [limit_minute |-> -1, remaining_minute |-> -1, limit_day |-> -1, remaining_day |-> -1]

\* Faulty variant: moves to the new bucket but keeps the old count
rollover_minute_stale(w, mb) == [w EXCEPT !.minute_bucket = mb]

rollover_minute(w, mb) ==
    IF w.minute_bucket # mb THEN [w EXCEPT !.minute_bucket = mb, !.minute_count = 0] ELSE w

\* Faulty variant: a new day keeps the old day's count
rollover_day_stale(w, db) == [w EXCEPT !.day_bucket = db]

rollover_day(w, db) ==
    IF w.day_bucket # db THEN [w EXCEPT !.day_bucket = db, !.day_count = 0] ELSE w

\* Faulty variant: only the day count starts again
rollover_day_only(w, mb, db) == rollover_day(w, db)

rollover(w, mb, db) == rollover_day(rollover_minute(w, mb), db)

\* Faulty variants: deny one call too late, one call too early
minute_limit_reached_late(w, rpm) == w.minute_count > rpm
minute_limit_reached_early(w, rpm) == w.minute_count >= rpm - 1

minute_limit_reached(w, rpm) == w.minute_count >= rpm

day_limit_reached(w, rpd) == w.day_count >= rpd

\* Faulty variant: counts the call against the minute only
consume_minute_only(w) == [w EXCEPT !.minute_count = @ + 1]

consume(w) == [w EXCEPT !.minute_count = @ + 1, !.day_count = @ + 1]

\* Faulty variant: reports what remained before the call's own increment
snapshot_before(w, rpm, rpd) ==
    [limit_minute |-> rpm, remaining_minute |-> Max(rpm - w.minute_count + 1, 0),
     limit_day |-> rpd, remaining_day |-> Max(rpd - w.day_count + 1, 0)]

snapshot(w, rpm, rpd) ==
    [limit_minute |-> rpm, remaining_minute |-> Max(rpm - w.minute_count, 0),
     limit_day |-> rpd, remaining_day |-> Max(rpd - w.day_count, 0)]

\* Faulty variant: counts the call against the minute before it checks the day
check_and_consume_eager(w0, mb, db, rpm, rpd) ==
    LET w == rollover(w0, mb, db)
        w1 == [w EXCEPT !.minute_count = @ + 1]
    IN
    IF minute_limit_reached(w, rpm)
    THEN [window |-> w, error |-> "minute limit reached", result |-> NoResult]
    ELSE IF day_limit_reached(w1, rpd)
    THEN [window |-> w1, error |-> "daily limit reached", result |-> NoResult]
    ELSE [window |-> consume(w), error |-> "", result |-> snapshot(consume(w), rpm, rpd)]

\* MemoryRateLimiter.check_and_consume on the stored window w0 of the token,
\* with the buckets mb, db of its clock read.  asyncio.Lock.acquire returns
\* without suspending when the lock is free, and the lock is only ever held
\* across code that has no await, so a call runs from its clock read to its
\* return within one step of the event loop.
check_and_consume(w0, mb, db, rpm, rpd) ==
    LET w == rollover(w0, mb, db) IN
    IF minute_limit_reached(w, rpm)
    THEN [window |-> w, error |-> "minute limit reached", result |-> NoResult]
    ELSE IF day_limit_reached(w, rpd)
    THEN [window |-> w, error |-> "daily limit reached", result |-> NoResult]
    ELSE [window |-> consume(w), error |-> "", result |-> snapshot(consume(w), rpm, rpd)]

stored_window(tok) == IF tok \in DOMAIN window THEN window[tok] ELSE TokenWindow0

----------------------------------------------------------------------------
(* Redis limiter: app/ratelimit/redis_store.py *)

\* Faulty variant: one minute key for all tokens
minute_key_shared(tok) == <<"rl", <<>>, "minute">>
minute_key(tok) == <<"rl", tok, "minute">>
day_key(tok) == <<"rl", tok, "day">>

\* INCR: a missing key is created at 1 with no expiry (exp = -1)
redis_incr(store, key) ==
    IF key \in DOMAIN store THEN [store EXCEPT ![key].count = @ + 1]
                            ELSE (key :> [count |-> 1, exp |-> -1]) @@ store

\* EXPIRE key ttl at time t
redis_expire(store, key, ttl, t) ==
    IF key \in DOMAIN store THEN [store EXCEPT ![key].exp = t + ttl] ELSE store

\* Redis drops a key once its expiry time is reached
redis_purge(store, t) ==
    LET live == {k \in DOMAIN store : store[k].exp = -1 \/ store[k].exp > t}
    IN [k \in live |-> store[k]]

\* _consume after its INCR (and EXPIRE): RateLimitError when count > limit
\* Faulty variant: lets one call over the limit through
over_limit_late(count, limit) == count > limit + 1

over_limit(count, limit) == count > limit

redis_remaining(count, limit) == limit - count

----------------------------------------------------------------------------
(* Authentication: app/auth.py *)

NoHeader == [present |-> FALSE, value |-> <<>>]
Hdr(v) == [present |-> TRUE, value |-> v]

BEARER_SP == <<"b","e","a","r","e","r"," ">>

AuthHeaders ==
    { NoHeader,
      Hdr(<<>>),
      Hdr(<<"B","a","s","i","c"," ","k","1">>),
      Hdr(<<"B","e","a","r","e","r","k","1">>),
      Hdr(<<"B","e","a","r","e","r"," ">>),
      Hdr(<<"B","e","a","r","e","r"," ","z","z">>),
      Hdr(<<"B","e","a","r","e","r"," ","k","1">>),
      Hdr(<<"b","e","a","r","e","r"," ","k","2">>),
      Hdr(<<"B","E","A","R","E","R"," "," ","k","1"," ">>) }

\* get_bearer_token: None is [some |-> FALSE]
get_bearer_token(header) ==
    IF ~header.present \/ header.value = <<>> THEN [some |-> FALSE, value |-> <<>>]
    ELSE IF ~startswith(lower(header.value), BEARER_SP) THEN [some |-> FALSE, value |-> <<>>]
    ELSE [some |-> TRUE, value |-> strip(split_once_tail(header.value, " "))]

\* HTTPException(status_code, detail, headers)
HTTPException(status, message, type, code, headers) ==
    [status |-> status,
     detail |-> [kind |-> "error", message |-> message, type |-> type, code |-> code],
     headers |-> headers]

NoHeaders == <<>>
WWW_AUTH == ("WWW-Authenticate" :> <<"B","e","a","r","e","r">>)

NoException == [status |-> 0,
                detail |-> [kind |-> "none", message |-> "", type |-> "", code |-> 0],
                headers |-> NoHeaders]

\* require_token: the exception raised (NoException if none) and the token
require_token(header, registry) ==
    LET tv == get_bearer_token(header) IN
    IF ~tv.some \/ tv.value = <<>>
    THEN [exc |-> HTTPException(401, "missing bearer token", "authentication_error", 0, WWW_AUTH),
          token |-> <<>>]
    ELSE IF ~registry_get(registry, tv.value).found
    THEN [exc |-> HTTPException(401, "invalid bearer token", "authentication_error", 0, WWW_AUTH),
          token |-> <<>>]
    ELSE [exc |-> NoException, token |-> tv.value]

----------------------------------------------------------------------------
(* Request bodies: app/schemas/openai_common.py *)

M_OLLAMA == <<"o","l","l","a","m","a",":","m">>
M_VLLM == <<"v","l","l","m",":","m">>
M_PLAIN == <<"m">>

NoField == [present |-> FALSE, value |-> <<>>]
Field(v) == [present |-> TRUE, value |-> v]

\* A chat message is the set of keys it carries
MSG_OK == {"role", "content"}
MSG_NO_CONTENT == {"role"}

Body(ep, model, stream, kind, items) ==
    [endpoint |-> ep, model |-> model, stream |-> stream,
     content |-> [kind |-> kind, items |-> items]]

NoBody == Body("", NoField, FALSE, "missing", <<>>)

Bodies ==
    { Body("chat", Field(M_PLAIN), TRUE, "messages", <<MSG_OK>>),
      Body("completions", Field(M_OLLAMA), FALSE, "str", <<>>),
      Body("embeddings", Field(M_VLLM), FALSE, "list", <<>>),
      Body("chat", Field(M_OLLAMA), FALSE, "messages", <<MSG_NO_CONTENT>>),
      Body("completions", Field(M_PLAIN), FALSE, "missing", <<>>),
      Body("embeddings", Field(M_VLLM), FALSE, "missing", <<>>) }

\* bodies at the edge of the schemas: array prompts, empty and incomplete
\* message lists
MSG_NO_ROLE == {"content"}

RequestBodies ==
    { Body("completions", Field(M_OLLAMA), FALSE, "list", <<>>),
      Body("completions", Field(M_VLLM), FALSE, "list", <<>>),
      Body("completions", Field(M_PLAIN), FALSE, "str", <<>>),
      Body("chat", Field(M_PLAIN), FALSE, "messages", <<>>),
      Body("chat", Field(M_PLAIN), FALSE, "messages", <<MSG_NO_ROLE>>),
      Body("chat", Field(M_PLAIN), FALSE, "messages", <<MSG_OK, MSG_NO_CONTENT>>),
      Body("chat", Field(M_PLAIN), FALSE, "messages", <<MSG_OK>>) }

\* pydantic validation of ChatCompletionRequest, CompletionRequest, EmbeddingRequest
validate(b) ==
    /\ b.model.present
    /\ CASE b.endpoint = "chat" ->
              /\ b.content.kind = "messages"
              /\ \A i \in 1..Len(b.content.items) : MSG_OK \subseteq b.content.items[i]
         [] b.endpoint = "completions" -> b.content.kind \in {"str", "list"}
         [] b.endpoint = "embeddings" -> b.content.kind \in {"str", "list"}
         [] OTHER -> FALSE

----------------------------------------------------------------------------
(* Dispatcher: app/main.py *)

OLLAMA_PREFIX == <<"o","l","l","a","m","a",":">>
VLLM_PREFIX == <<"v","l","l","m",":">>

\* resolve_backend: <<backend_name, backend_model>>
resolve_backend(model, st) ==
    IF startswith(model, OLLAMA_PREFIX) THEN <<OLLAMA, split_once_tail(model, ":")>>
    ELSE IF startswith(model, VLLM_PREFIX) THEN <<VLLM, split_once_tail(model, ":")>>
    ELSE <<st.default_backend, model>>

\* startup_event registers an adapter for each enabled backend; get_adapter finds it
adapter_registered_any(name, st) == TRUE
adapter_registered(name, st) == name \in st.enabled

NoCall == [pc |-> "idle", token |-> <<>>, body |-> NoBody,
           rate_info |-> NoResult, backend |-> <<>>, backend_model |-> <<>>,
           count_m |-> -1, count_d |-> -1, k_m |-> -1, k_d |-> -1,
           count |-> -1, remaining_minute |-> -1]

Detail(kind, message, type, code) ==
    [kind |-> kind, message |-> message, type |-> type, code |-> code]

\* call: the admission of the request the response answers (history)
Response(status, body, headers, call) ==
    [status |-> status, body |-> body, headers |-> headers,
     call |-> [NoCall EXCEPT !.token = call.token, !.rate_info = call.rate_info,
                             !.count_m = call.count_m, !.count_d = call.count_d,
                             !.k_m = call.k_m, !.k_d = call.k_d]]

NoResp == Response(0, Detail("none", "", "", 0), NoHeaders, NoCall)

\* set_rate_headers
set_rate_headers(headers, result) ==
    ("X-RateLimit-Limit-Minute" :> str_int(result.limit_minute))
    @@ ("X-RateLimit-Remaining-Minute" :> str_int(result.remaining_minute))
    @@ ("X-RateLimit-Limit-Day" :> str_int(result.limit_day))
    @@ ("X-RateLimit-Remaining-Day" :> str_int(result.remaining_day))
    @@ headers

\* http_exception_handler: JSONResponse(status_code, content)
http_exception_handler(exc, call) ==
    Response(exc.status,
             Detail("error", exc.detail.message, exc.detail.type, exc.detail.code),
             NoHeaders, call)

\* The endpoint function runs once its dependency (require_token) and its
\* body parameter resolved without error
\* Faulty variant: the endpoint function runs on a body that failed validation
endpoint_runs_unvalidated(auth_status, body_valid) == auth_status = 0

endpoint_runs(auth_status, body_valid) == auth_status = 0 /\ body_valid

\* Bag operations on the tasks in flight
InFlight == BagToSet(req)
without(r) == req (-) SetToBag({r})
with(tasks, r) == tasks (+) SetToBag({r})

----------------------------------------------------------------------------
(* The parts run under their own specifications, at rest *)

\* payload handed to the adapter: the keys model and response_model
Payload(model, response_model) == [model |-> model, response_model |-> response_model]

NoDispatch == [pc |-> "idle", model |-> <<>>, backend |-> <<>>,
               payload |-> Payload(<<>>, NoField), adapter |-> <<>>,
               response_model |-> <<>>]

NoStream == [pc |-> "idle", kind |-> "", sent |-> <<>>, ending |-> "eof", read |-> 0,
             role_sent |-> FALSE, finish_reason |-> "stop", events |-> <<>>,
             upstream |-> "none"]

\* ProxyState.model_cache at construction
ModelCache0 == [expires |-> 0, data |-> <<>>]

\* what one adapter's list_models gave a refresh
NotAsked == [state |-> "none", entries |-> <<>>, raw |-> <<>>]
NoGot == [ollama |-> NotAsked, vllm |-> NotAsked]

\* the reply of GET /v1/models, with the Authorization header of the request,
\* what the refresh behind it got from the adapters and the cached list it
\* replaced
NoListed == [status |-> 0, data |-> <<>>, type |-> "", header |-> [present |-> FALSE, value |-> <<>>],
             got |-> NoGot, before |-> <<>>]

RouteIdle == dispatch = NoDispatch
StreamIdle == iterator = NoStream
ModelsIdle ==
    /\ mono = 0
    /\ model_cache = ModelCache0
    /\ listing = EmptyBag
    /\ listed = NoListed

----------------------------------------------------------------------------
(* Initial state: after startup_event *)

Init ==
    /\ now \in Times /\ \A t \in Times : now <= t
    /\ settings \in SettingsSet
    /\ window = <<>>
    /\ redis = <<>>
    /\ req = EmptyBag
    /\ out = NoResp
    /\ admitted_m = [tok \in Tokens |-> 0]
    /\ admitted_d = [tok \in Tokens |-> 0]
    /\ started = 0
    /\ RouteIdle /\ StreamIdle /\ ModelsIdle

history == <<admitted_m, admitted_d>>

limiter == <<window, redis>>

----------------------------------------------------------------------------
(* Steps of a request task *)

cfg_of(tok) == settings.tokens_json[tok]

\* The rest of the endpoint function after apply_rate_limit returned, up to
\* its await of the adapter: resolve_backend, get_adapter (500)
AfterAdmission(rest, r1) ==
    LET route == resolve_backend(r1.body.model.value, settings) IN
    IF ~adapter_registered(route[1], settings)
    THEN /\ out' = http_exception_handler(
                      HTTPException(500, "backend not available", "backend_error", 0, NoHeaders), r1)
         /\ req' = rest
    ELSE /\ out' = NoResp
         /\ req' = with(rest, [r1 EXCEPT !.pc = "call", !.backend = route[1],
                                         !.backend_model = route[2]])

\* apply_rate_limit turns a RateLimitError into a 429
rate_limit_response(message, r) ==
    http_exception_handler(HTTPException(429, message, "rate_limit_exceeded", 0, NoHeaders), r)

\* require_token and validate over the inputs of the model
AuthOf == [reg \in {OneToken, TwoTokens} |-> [h \in AuthHeaders |-> require_token(h, reg)]]
ValidOf == [b \in Bodies \cup RequestBodies |-> validate(b)]

\* apply_rate_limit with the in-process limiter, then the endpoint function up
\* to the adapter call
MemoryAdmission(r) ==
    LET tok == r.token
        cfg == cfg_of(tok)
        mb == minute_bucket(now)
        db == day_bucket(now)
        res == check_and_consume(stored_window(tok), mb, db, cfg.rpm, cfg.rpd)
    IN
    /\ window' = (tok :> res.window) @@ window
    /\ UNCHANGED redis
    /\ IF res.error # ""
       THEN /\ out' = rate_limit_response(res.error, r)
            /\ UNCHANGED <<req, history>>
       ELSE /\ admitted_m' = [admitted_m EXCEPT ![tok] = @ + 1]
            /\ admitted_d' = [admitted_d EXCEPT ![tok] = @ + 1]
            /\ AfterAdmission(req, [r EXCEPT !.rate_info = res.result,
                                             !.count_m = res.window.minute_count,
                                             !.count_d = res.window.day_count,
                                             !.k_m = admitted_m[tok] + 1,
                                             !.k_d = admitted_d[tok] + 1])

\* A request arrives with an Authorization header of hdrs and a body of
\* bodies: require_token, body validation, then the endpoint function
\* (chat_completions, completions, embeddings) runs to its first await that
\* suspends
ReceiveFrom(hdrs, bodies) ==
    /\ BagCardinality(req) < NReq
    /\ \E auth \in {AuthOf[settings.tokens_json][hdr] : hdr \in hdrs} :
        IF auth.exc.status # 0
        THEN /\ out' = http_exception_handler(auth.exc, NoCall)
             /\ UNCHANGED <<req, started, limiter, history>>
        ELSE \E b \in bodies :
             LET call == [NoCall EXCEPT !.token = auth.token, !.body = b] IN
             IF ~endpoint_runs(auth.exc.status, ValidOf[b])
             THEN /\ out' = Response(422, Detail("detail", "", "", 0), NoHeaders, NoCall)
                  /\ UNCHANGED <<req, started, limiter, history>>
             ELSE IF settings.rate_limit_store = "memory"
                  THEN MemoryAdmission(call) /\ UNCHANGED started
                  ELSE /\ started < MaxCalls
                       /\ started' = started + 1
                       /\ out' = NoResp
                       /\ req' = with(req, [call EXCEPT !.pc = "incr_minute"])
                       /\ UNCHANGED <<limiter, history>>
    /\ UNCHANGED <<now, settings>>

Receive == ReceiveFrom(AuthHeaders, Bodies)

\* _consume of the minute key after its INCR and EXPIRE, then on to the day
\* key; r0 is the task before the step, r its locals now
ConsumedMinuteOnly(r0, r) ==
    LET cfg == cfg_of(r.token) IN
    IF over_limit(r.count, cfg.rpm)
    THEN /\ out' = rate_limit_response("rate limit exceeded", r)
         /\ req' = without(r0)
    ELSE AfterAdmission(without(r0),
                        [r EXCEPT !.rate_info =
                            [limit_minute |-> cfg.rpm,
                             remaining_minute |-> redis_remaining(r.count, cfg.rpm),
                             limit_day |-> cfg.rpd, remaining_day |-> cfg.rpd]])

ConsumedMinute(r0, r) ==
    IF over_limit(r.count, cfg_of(r.token).rpm)
    THEN /\ out' = rate_limit_response("rate limit exceeded", r)
         /\ req' = without(r0)
    ELSE /\ out' = NoResp
         /\ req' = with(without(r0),
                        [r EXCEPT !.pc = "incr_day",
                                  !.remaining_minute = redis_remaining(r.count, cfg_of(r.token).rpm)])

\* _consume of the day key after its INCR and EXPIRE, the RateLimitResult, and
\* the endpoint function up to the adapter call
ConsumedDay(r0, r) ==
    LET cfg == cfg_of(r.token) IN
    IF over_limit(r.count, cfg.rpd)
    THEN /\ out' = rate_limit_response("rate limit exceeded", r)
         /\ req' = without(r0)
    ELSE AfterAdmission(without(r0),
                        [r EXCEPT !.rate_info =
                            [limit_minute |-> cfg.rpm, remaining_minute |-> r.remaining_minute,
                             limit_day |-> cfg.rpd,
                             remaining_day |-> redis_remaining(r.count, cfg.rpd)]])

\* await redis.incr(minute key)
IncrMinute(r0) ==
    /\ r0.pc = "incr_minute"
    /\ LET key == minute_key(r0.token)
           store == redis_incr(redis, key)
           r == [r0 EXCEPT !.count = store[key].count, !.count_m = store[key].count]
       IN /\ redis' = store
          /\ IF r.count = 1
             THEN /\ req' = with(without(r0), [r EXCEPT !.pc = "expire_minute"])
                  /\ out' = NoResp
             ELSE ConsumedMinute(r0, r)
    /\ UNCHANGED <<now, settings, window, history, started>>

\* await redis.expire(minute key, 60)
ExpireMinute(r0) ==
    /\ r0.pc = "expire_minute"
    /\ redis' = redis_expire(redis, minute_key(r0.token), MINUTE_TTL, now)
    /\ ConsumedMinute(r0, r0)
    /\ UNCHANGED <<now, settings, window, history, started>>

\* await redis.incr(day key)
IncrDay(r0) ==
    /\ r0.pc = "incr_day"
    /\ LET key == day_key(r0.token)
           store == redis_incr(redis, key)
           r == [r0 EXCEPT !.count = store[key].count, !.count_d = store[key].count]
       IN /\ redis' = store
          /\ IF r.count = 1
             THEN /\ req' = with(without(r0), [r EXCEPT !.pc = "expire_day"])
                  /\ out' = NoResp
             ELSE ConsumedDay(r0, r)
    /\ UNCHANGED <<now, settings, window, history, started>>

\* await redis.expire(day key, 86400)
ExpireDay(r0) ==
    /\ r0.pc = "expire_day"
    /\ redis' = redis_expire(redis, day_key(r0.token), DAY_TTL, now)
    /\ ConsumedDay(r0, r0)
    /\ UNCHANGED <<now, settings, window, history, started>>

\* What outlives the endpoint function of a streamed response: the generator
\* with its adapter and payload
stream_task(r) ==
    [NoCall EXCEPT !.pc = "streaming", !.token = r.token, !.body = r.body,
                   !.backend = r.backend, !.backend_model = r.backend_model]

\* The adapter call returns: JSONResponse or StreamingResponse, X-Proxy-Backend
\* and the rate-limit headers
AdapterReturn(r) ==
    /\ r.pc = "call"
    /\ out' = Response(200,
                       Detail(IF r.body.stream THEN "stream" ELSE "json", "", "", 0),
                       set_rate_headers(("X-Proxy-Backend" :> r.backend), r.rate_info),
                       r)
    /\ req' = IF r.body.stream THEN with(without(r), stream_task(r)) ELSE without(r)
    /\ UNCHANGED <<now, settings, limiter, history, started>>

\* The adapter call raises httpx.HTTPError: 502
AdapterFailRetried(r) ==
    /\ r.pc = "call"
    /\ out' = NoResp
    /\ req' = with(without(r), [r EXCEPT !.backend = IF @ = OLLAMA THEN VLLM ELSE OLLAMA])
    /\ UNCHANGED <<now, settings, limiter, history, started>>

AdapterFail(r) ==
    /\ r.pc = "call"
    /\ out' = http_exception_handler(
                 HTTPException(502, "transport", "backend_error", 502, NoHeaders), r)
    /\ req' = without(r)
    /\ UNCHANGED <<now, settings, limiter, history, started>>

\* The streamed body ends
StreamEnd(r) ==
    /\ r.pc = "streaming"
    /\ out' = NoResp
    /\ req' = without(r)
    /\ UNCHANGED <<now, settings, limiter, history, started>>

\* The upstream fails while the body is streamed
StreamError(r) ==
    /\ r.pc = "streaming"
    /\ out' = NoResp
    /\ req' = without(r)
    /\ UNCHANGED <<now, settings, limiter, history, started>>

\* The client disconnects: the task is cancelled at the await it is suspended at
Cancel(r) ==
    /\ out' = NoResp
    /\ req' = without(r)
    /\ UNCHANGED <<now, settings, limiter, history, started>>

\* The wall clock advances; Redis drops the keys that expired.  The history
\* starts a new count when the clock enters a new bucket.
Tick ==
    /\ \E t \in Times : /\ t > now
                        /\ \A u \in Times : u > now => t <= u
                        /\ now' = t
    /\ redis' = redis_purge(redis, now')
    /\ admitted_m' = IF minute_bucket(now') # minute_bucket(now)
                     THEN [tok \in Tokens |-> 0] ELSE admitted_m
    /\ admitted_d' = IF day_bucket(now') # day_bucket(now)
                     THEN [tok \in Tokens |-> 0] ELSE admitted_d
    /\ out' = NoResp
    /\ UNCHANGED <<settings, window, req, started>>

\* The gateway with the in-process limiter
Next ==
    \/ Receive /\ UNCHANGED other_vars
    \/ \E r \in InFlight : AdapterReturn(r) /\ UNCHANGED other_vars
    \/ \E r \in InFlight : AdapterFail(r) /\ UNCHANGED other_vars
    \/ \E r \in InFlight : StreamEnd(r) /\ UNCHANGED other_vars
    \/ \E r \in InFlight : StreamError(r) /\ UNCHANGED other_vars
    \/ \E r \in InFlight : Cancel(r) /\ UNCHANGED other_vars
    \/ Tick /\ UNCHANGED other_vars

Spec == Init /\ [][Next]_vars

\* Both limiters under authenticated, valid, non-streaming requests
LimiterHeaders == {Hdr(<<"B","e","a","r","e","r"," ","k","1">>),
                   Hdr(<<"b","e","a","r","e","r"," ","k","2">>)}
LimiterBodies == {Body("completions", Field(M_OLLAMA), FALSE, "str", <<>>)}

LimiterInit ==
    /\ now \in Times /\ \A t \in Times : now <= t
    /\ settings \in LimiterSettingsSet
    /\ window = <<>>
    /\ redis = <<>>
    /\ req = EmptyBag
    /\ out = NoResp
    /\ admitted_m = [tok \in Tokens |-> 0]
    /\ admitted_d = [tok \in Tokens |-> 0]
    /\ started = 0
    /\ RouteIdle /\ StreamIdle /\ ModelsIdle

LimiterReceive == ReceiveFrom(LimiterHeaders, LimiterBodies)

LimiterNext ==
    \/ LimiterReceive /\ UNCHANGED other_vars
    \/ \E r \in InFlight : IncrMinute(r) /\ UNCHANGED other_vars
    \/ \E r \in InFlight : ExpireMinute(r) /\ UNCHANGED other_vars
    \/ \E r \in InFlight : IncrDay(r) /\ UNCHANGED other_vars
    \/ \E r \in InFlight : ExpireDay(r) /\ UNCHANGED other_vars
    \/ \E r \in InFlight : AdapterReturn(r) /\ UNCHANGED other_vars
    \/ \E r \in InFlight : Cancel(r) /\ UNCHANGED other_vars
    \/ Tick /\ UNCHANGED other_vars

LimiterSpec == LimiterInit /\ [][LimiterNext]_vars

----------------------------------------------------------------------------
(* Routing and the response model: app/main.py, app/adapters *)

\* The gateway of Init with no request received
GatewayIdle ==
    /\ now \in Times /\ \A t \in Times : now <= t
    /\ window = <<>>
    /\ redis = <<>>
    /\ req = EmptyBag
    /\ out = NoResp
    /\ admitted_m = [tok \in Tokens |-> 0]
    /\ admitted_d = [tok \in Tokens |-> 0]
    /\ started = 0

\* Strings over a set of characters, of length at most n
RECURSIVE StringsUpTo(_, _)
StringsUpTo(chars, n) ==
    IF n = 0 THEN {<<>>}
    ELSE LET shorter == StringsUpTo(chars, n - 1)
         IN shorter \cup {w \o <<c>> : w \in shorter, c \in chars}

\* Model names a client sends: a head that is or resembles a backend prefix,
\* then up to MaxModelLen characters, colons among them
ModelHeads == {<<>>, OLLAMA_PREFIX, VLLM_PREFIX, OLLAMA, VLLM,
               <<"O","l","l","a","m","a",":">>, <<"x",":">>}
RouteModels == {h \o t : h \in ModelHeads, t \in StringsUpTo({"m", ":"}, MaxModelLen)}

\* dict.get(key, default) on a key of the payload
payload_get(field, default) == IF field.present THEN field.value ELSE default

RouteInit ==
    /\ settings \in SettingsSet
    /\ GatewayIdle /\ StreamIdle /\ ModelsIdle
    /\ \E m \in RouteModels : dispatch = [NoDispatch EXCEPT !.pc = "new", !.model = m]

\* chat_completions from resolve_backend to get_adapter: the payload gets
\* model = backend_model and response_model = the model the client sent
RouteChat ==
    /\ dispatch.pc = "new"
    /\ LET route == resolve_backend(dispatch.model, settings)
           payload == Payload(route[2], Field(dispatch.model))
       IN dispatch' = [dispatch EXCEPT
                          !.backend = route[1],
                          !.payload = payload,
                          !.pc = IF adapter_registered(route[1], settings) THEN "call" ELSE "error",
                          !.adapter = IF adapter_registered(route[1], settings) THEN route[1] ELSE <<>>]

\* OllamaAdapter.chat_completions: the response's model is response_model
OllamaChat ==
    /\ dispatch.pc = "call" /\ dispatch.adapter = OLLAMA
    /\ dispatch' = [dispatch EXCEPT
                       !.pc = "done",
                       !.response_model = payload_get(dispatch.payload.response_model,
                                                      dispatch.payload.model)]

\* VLLMAdapter.chat_completions: the payload goes upstream as it is and the
\* upstream's JSON comes back as it is; the upstream names the model it was
\* asked for
VllmChat ==
    /\ dispatch.pc = "call" /\ dispatch.adapter = VLLM
    /\ dispatch' = [dispatch EXCEPT !.pc = "done", !.response_model = dispatch.payload.model]

RouteNext ==
    \/ RouteChat /\ UNCHANGED <<gateway_vars, stream_vars, models_vars>>
    \/ OllamaChat /\ UNCHANGED <<gateway_vars, stream_vars, models_vars>>
    \/ VllmChat /\ UNCHANGED <<gateway_vars, stream_vars, models_vars>>

RouteSpec == RouteInit /\ [][RouteNext]_vars

-----------------------------------------------------------------------------
(* The Ollama streaming translators: OllamaAdapter.chat_completions.iterator
   and OllamaAdapter.completions.iterator *)

MaxFrames == 3

\* dict.get(key) of an optional string key
Absent == [present |-> FALSE, value |-> ""]
Given(v) == [present |-> TRUE, value |-> v]

\* One line of response.aiter_lines(): an empty line, a line json.loads
\* rejects, or a JSON object with done, message.content / response, done_reason
BLANK == [line |-> "blank", done |-> FALSE, text |-> <<>>, done_reason |-> Absent]
GARBAGE == [line |-> "garbage", done |-> FALSE, text |-> <<>>, done_reason |-> Absent]
Frame(done, text, done_reason) ==
    [line |-> "json", done |-> done, text |-> text, done_reason |-> done_reason]

Texts == {<<>>, <<"a">>, <<"b">>}
DoneReasons == {Absent, Given(""), Given("length")}
Lines ==
    {BLANK, GARBAGE}
        \cup {Frame(FALSE, t, Absent) : t \in Texts}
        \cup {Frame(TRUE, <<>>, r) : r \in DoneReasons}
        \cup {Frame(TRUE, <<"b">>, Absent)}

RECURSIVE LinesUpTo(_)
LinesUpTo(n) ==
    IF n = 0 THEN {<<>>}
    ELSE LET shorter == LinesUpTo(n - 1)
         IN shorter \cup {w \o <<l>> : w \in shorter, l \in Lines}

\* data.get("done_reason", "stop") or "stop"
done_reason_ignored(frame) == "stop"
done_reason_or_stop(frame) ==
    IF frame.done_reason.present /\ frame.done_reason.value # ""
    THEN frame.done_reason.value ELSE "stop"

\* choices[0] of a chunk: delta.role, delta.content / text, finish_reason
Chunk(object, role, content, finish_reason) ==
    [object |-> object, role |-> role, content |-> content,
     finish_reason |-> finish_reason]
CHAT_CHUNK == "chat.completion.chunk"
TEXT_COMPLETION == "text_completion"

\* sse_format(chunk) and sse_done(): the event's data
sse_format(chunk) == [data |-> chunk]
sse_done == [data |-> Chunk("[DONE]", FALSE, NoField, Absent)]

\* the final chunk of either iterator
final_chunk_unfinished(kind, finish_reason) ==
    IF kind = "chat"
    THEN Chunk(CHAT_CHUNK, FALSE, NoField, Absent)
    ELSE Chunk(TEXT_COMPLETION, FALSE, Field(<<>>), Absent)
final_chunk(kind, finish_reason) ==
    IF kind = "chat"
    THEN Chunk(CHAT_CHUNK, FALSE, NoField, Given(finish_reason))
    ELSE Chunk(TEXT_COMPLETION, FALSE, Field(<<>>), Given(finish_reason))

\* the two yields that end a stream
last_yields_sentinel_only(kind, finish_reason) == <<sse_done>>
last_yields(kind, finish_reason) ==
    <<sse_format(final_chunk(kind, finish_reason)), sse_done>>

\* the yields for a frame that is not done
frame_yields_role_only(kind, role_sent, frame) ==
    IF kind = "chat"
    THEN IF ~role_sent
         THEN <<sse_format(Chunk(CHAT_CHUNK, TRUE, NoField, Absent))>>
         ELSE IF frame.text # <<>>
              THEN <<sse_format(Chunk(CHAT_CHUNK, FALSE, Field(frame.text), Absent))>>
              ELSE <<>>
    ELSE <<sse_format(Chunk(TEXT_COMPLETION, FALSE, Field(frame.text), Absent))>>
frame_yields_every_frame(kind, role_sent, frame) ==
    IF kind = "chat"
    THEN <<sse_format(Chunk(CHAT_CHUNK, TRUE,
                            IF frame.text # <<>> THEN Field(frame.text) ELSE NoField,
                            Absent))>>
    ELSE IF frame.text # <<>>
         THEN <<sse_format(Chunk(TEXT_COMPLETION, FALSE, Field(frame.text), Absent))>>
         ELSE <<>>
frame_yields(kind, role_sent, frame) ==
    IF kind = "chat"
    THEN LET delta == [role |-> ~role_sent,
                       content |-> IF frame.text # <<>> THEN Field(frame.text)
                                   ELSE NoField]
         IN IF delta.role \/ delta.content.present
            THEN <<sse_format(Chunk(CHAT_CHUNK, delta.role, delta.content, Absent))>>
            ELSE <<>>
    ELSE <<sse_format(Chunk(TEXT_COMPLETION, FALSE, Field(frame.text), Absent))>>

\* an exception raised inside the generator leaves it: no handler, no yield;
\* it passes through "async with response", which closes the response
raised_closing(it) ==
    [it EXCEPT !.pc = "failed", !.upstream = "closed",
               !.events = @ \o last_yields(it.kind, it.finish_reason)]
raised(it) == [it EXCEPT !.pc = "failed", !.upstream = "closed"]

\* json.loads(line) raises
undecodable_never(frame) == FALSE
undecodable(frame) == frame.line = "garbage"

\* the adapter has awaited client.stream(...) and raise_for_status() and has
\* returned iterator(): the upstream response is open, the generator object
\* exists and no line of its body has run
StreamInit ==
    /\ settings \in SettingsSet
    /\ GatewayIdle
    /\ RouteIdle
    /\ ModelsIdle
    /\ \E kind \in {"chat", "completions"}, sent \in LinesUpTo(MaxFrames),
          ending \in {"eof", "error"} :
          iterator = [NoStream EXCEPT !.pc = "opened", !.kind = kind,
                                      !.sent = sent, !.ending = ending,
                                      !.upstream = "open"]

NextLine == iterator.sent[iterator.read + 1]
HasLine == iterator.pc = "reading" /\ iterator.read < Len(iterator.sent)

\* the first __anext__ of the generator: its body starts and enters
\* "async with response"
FirstPull ==
    /\ iterator.pc = "opened"
    /\ iterator' = [iterator EXCEPT !.pc = "reading"]

\* the client goes away and the response task is cancelled. A generator that
\* is suspended inside "async with response" is thrown into and the block
\* closes the response; a generator that was never started has no frame to
\* throw into, its body never runs and nothing else holds the response
ClientDisconnect ==
    /\ iterator.pc \in {"opened", "reading"}
    /\ iterator' = [iterator EXCEPT
          !.pc = "cancelled",
          !.upstream = IF iterator.pc = "reading" THEN "closed" ELSE @]

\* if not line: continue
SkipBlank ==
    /\ HasLine
    /\ NextLine.line = "blank"
    /\ iterator' = [iterator EXCEPT !.read = @ + 1]

\* a frame without done: one chunk, or none when the chat delta is empty
TranslateFrame ==
    /\ HasLine
    /\ NextLine.line # "blank"
    /\ ~undecodable(NextLine)
    /\ ~NextLine.done
    /\ iterator' = [iterator EXCEPT
          !.read = @ + 1,
          !.role_sent = IF iterator.kind = "chat" THEN TRUE ELSE @,
          !.events = @ \o frame_yields(iterator.kind, iterator.role_sent, NextLine)]

\* the done frame: final chunk, sentinel, return
TranslateDone ==
    /\ HasLine
    /\ NextLine.line # "blank"
    /\ ~undecodable(NextLine)
    /\ NextLine.done
    /\ LET finish_reason == done_reason_or_stop(NextLine)
       IN iterator' = [iterator EXCEPT
             !.pc = "done",
             !.upstream = "closed",
             !.read = @ + 1,
             !.finish_reason = IF iterator.kind = "chat" THEN finish_reason ELSE @,
             !.events = @ \o last_yields(iterator.kind, finish_reason)]

\* the upstream ends without a done frame: final chunk "stop", sentinel
UpstreamEnds ==
    /\ iterator.pc = "reading"
    /\ iterator.read = Len(iterator.sent)
    /\ iterator.ending = "eof"
    /\ iterator' = [iterator EXCEPT
          !.pc = "done",
          !.upstream = "closed",
          !.events = @ \o last_yields(iterator.kind, iterator.finish_reason)]

\* json.loads raises on the line: the exception leaves the generator
DecodeFails ==
    /\ HasLine
    /\ NextLine.line # "blank"
    /\ undecodable(NextLine)
    /\ iterator' = raised([iterator EXCEPT !.read = @ + 1])

\* aiter_lines raises: the exception leaves the generator
ReadFails ==
    /\ iterator.pc = "reading"
    /\ iterator.read = Len(iterator.sent)
    /\ iterator.ending = "error"
    /\ iterator' = raised(iterator)

StreamNext ==
    \/ FirstPull /\ UNCHANGED <<gateway_vars, route_vars, models_vars>>
    \/ ClientDisconnect /\ UNCHANGED <<gateway_vars, route_vars, models_vars>>
    \/ SkipBlank /\ UNCHANGED <<gateway_vars, route_vars, models_vars>>
    \/ TranslateFrame /\ UNCHANGED <<gateway_vars, route_vars, models_vars>>
    \/ TranslateDone /\ UNCHANGED <<gateway_vars, route_vars, models_vars>>
    \/ UpstreamEnds /\ UNCHANGED <<gateway_vars, route_vars, models_vars>>
    \/ DecodeFails /\ UNCHANGED <<gateway_vars, route_vars, models_vars>>
    \/ ReadFails /\ UNCHANGED <<gateway_vars, route_vars, models_vars>>

StreamSpec == StreamInit /\ [][StreamNext]_vars

-----------------------------------------------------------------------------
(* GET /v1/models: list_models and proxy_models *)

MaxTicks == 3
MaxListing == 2

CACHE_MODELS_TTL == 300
TickMs == (CACHE_MODELS_TTL * 1000) \div 2

\* a model entry: the keys id and owned_by
Entry(id, owned_by) == [id |-> id, owned_by |-> owned_by]

\* GET /api/tags of Ollama: the name of each item of body["models"]
OllamaTags == {<<NoField, Field(<<"m">>)>>}
\* GET /v1/models of vLLM: body["data"]
VllmData == {<<Entry(NoField, "vllm"), Entry(Field(<<"v">>), "vllm"),
               Entry(Field(VLLM_PREFIX \o <<"w">>), "vllm")>>}

has_id(field) == field.present /\ field.value # <<>>

\* OllamaAdapter.list_models
RECURSIVE ollama_list_models(_)
ollama_list_models(names) ==
    IF names = <<>> THEN <<>>
    ELSE (IF has_id(Head(names))
          THEN <<Entry(Field(OLLAMA_PREFIX \o Head(names).value), "ollama")>>
          ELSE <<>>) \o ollama_list_models(Tail(names))

\* VLLMAdapter.list_models
vllm_list_models(data) == data

\* the loop of proxy_models over the vLLM entries
RECURSIVE vllm_entries_always_prefixed(_)
vllm_entries_always_prefixed(data) ==
    IF data = <<>> THEN <<>>
    ELSE (IF ~has_id(Head(data).id) THEN <<>>
          ELSE <<[Head(data) EXCEPT !.id = Field(VLLM_PREFIX \o @.value)]>>)
         \o vllm_entries_always_prefixed(Tail(data))
RECURSIVE vllm_entries(_)
vllm_entries(data) ==
    IF data = <<>> THEN <<>>
    ELSE (IF ~has_id(Head(data).id) THEN <<>>
          ELSE IF startswith(Head(data).id.value, VLLM_PREFIX) THEN <<Head(data)>>
          ELSE <<[Head(data) EXCEPT !.id = Field(VLLM_PREFIX \o @.value)]>>)
         \o vllm_entries(Tail(data))

\* models: list = []
new_models_from_cache(cache) == cache.data
new_models(cache) == <<>>

\* if cache["expires"] > now: return cache["data"]
cache_valid(cache, t) == cache.expires > t

\* the dependencies of the list_models endpoint
list_models_depends_limited == {"require_token", "apply_rate_limit"}
list_models_depends == {"require_token"}

Listed(status, data, type, header, got, before) ==
    [status |-> status, data |-> data, type |-> type, header |-> header, got |-> got,
     before |-> before]

NoListing == [pc |-> "idle", header |-> NoHeader, now |-> 0, models |-> <<>>, got |-> NoGot]

Listing == BagToSet(listing)

\* the end of proxy_models and of list_models: the cache is written, the list
\* returned
Refreshed(t0, t) ==
    /\ model_cache' = [expires |-> t.now + CACHE_MODELS_TTL * 1000, data |-> t.models]
    /\ listed' = Listed(200, t.models, "refreshed", t.header, t.got, model_cache.data)
    /\ listing' = listing (-) SetToBag({t0})

\* after the Ollama part of a refresh: the vLLM call, or the end
AfterOllama(t0, t, tasks) ==
    IF settings.enabled \cap {VLLM} # {} /\ adapter_registered(VLLM, settings)
    THEN /\ listing' = with(tasks, [t EXCEPT !.pc = "vllm"])
         /\ listed' = NoListed
         /\ UNCHANGED model_cache
    ELSE /\ model_cache' = [expires |-> t.now + CACHE_MODELS_TTL * 1000, data |-> t.models]
         /\ listed' = Listed(200, t.models, "refreshed", t.header, t.got, model_cache.data)
         /\ listing' = tasks

\* proxy_models from its clock read to its first await that suspends
proxy_models(header) ==
    LET t == [NoListing EXCEPT !.header = header, !.now = mono,
                               !.models = new_models(model_cache)] IN
    IF cache_valid(model_cache, t.now)
    THEN /\ listed' = Listed(200, model_cache.data, "cached", header, NoGot, model_cache.data)
         /\ UNCHANGED <<model_cache, listing>>
    ELSE IF settings.enabled \cap {OLLAMA} # {} /\ adapter_registered(OLLAMA, settings)
    THEN /\ listing' = with(listing, [t EXCEPT !.pc = "ollama"])
         /\ listed' = NoListed
         /\ UNCHANGED model_cache
    ELSE AfterOllama(t, t, listing)

\* GET /v1/models arrives with an Authorization header of hdrs
ListModelsFrom(hdrs) ==
    /\ BagCardinality(listing) < MaxListing
    /\ \E hdr \in hdrs :
        LET auth == AuthOf[settings.tokens_json][hdr] IN
        IF auth.exc.status # 0
        THEN /\ listed' = Listed(auth.exc.status, <<>>, auth.exc.detail.type, hdr, NoGot, <<>>)
             /\ UNCHANGED <<model_cache, listing, window>>
        ELSE IF "apply_rate_limit" \in list_models_depends
        THEN LET cfg == cfg_of(auth.token)
                 res == check_and_consume(stored_window(auth.token), minute_bucket(now),
                                          day_bucket(now), cfg.rpm, cfg.rpd)
             IN /\ window' = (auth.token :> res.window) @@ window
                /\ IF res.error # ""
                   THEN /\ listed' = Listed(429, <<>>, "rate_limit_exceeded", hdr, NoGot, <<>>)
                        /\ UNCHANGED <<model_cache, listing>>
                   ELSE proxy_models(hdr)
        ELSE /\ proxy_models(hdr)
             /\ UNCHANGED window
    /\ UNCHANGED <<mono, now, settings, redis, req, out, history, started>>

ModelsHeaders == {NoHeader,
                  Hdr(<<"B","e","a","r","e","r"," ","z","z">>),
                  Hdr(<<"B","e","a","r","e","r"," ","k","1">>)}
ListModels == ListModelsFrom(ModelsHeaders)

\* adapter.list_models() of Ollama returns
OllamaListed(t) ==
    /\ t.pc = "ollama"
    /\ \E names \in OllamaTags :
          LET got == ollama_list_models(names) IN
          AfterOllama(t, [t EXCEPT !.models = @ \o got,
                                   !.got.ollama = [state |-> "ok", entries |-> got, raw |-> names]],
                      listing (-) SetToBag({t}))
    /\ UNCHANGED <<mono, gateway_vars>>

\* adapter.list_models() of Ollama raises: logged, the refresh goes on
OllamaListFails(t) ==
    /\ t.pc = "ollama"
    /\ AfterOllama(t, [t EXCEPT !.got.ollama = [state |-> "failed", entries |-> <<>>, raw |-> <<>>]],
                   listing (-) SetToBag({t}))
    /\ UNCHANGED <<mono, gateway_vars>>

\* adapter.list_models() of vLLM returns
VllmListed(t) ==
    /\ t.pc = "vllm"
    /\ \E data \in VllmData :
          LET got == vllm_entries(vllm_list_models(data)) IN
          Refreshed(t, [t EXCEPT !.models = @ \o got,
                                 !.got.vllm = [state |-> "ok", entries |-> got, raw |-> data]])
    /\ UNCHANGED <<mono, gateway_vars>>

\* adapter.list_models() of vLLM raises: logged, the refresh goes on
VllmListFails(t) ==
    /\ t.pc = "vllm"
    /\ Refreshed(t, [t EXCEPT !.got.vllm = [state |-> "failed", entries |-> <<>>, raw |-> <<>>]])
    /\ UNCHANGED <<mono, gateway_vars>>

\* the monotonic clock advances
MonoTick ==
    /\ mono < MaxTicks * TickMs
    /\ mono' = mono + TickMs
    /\ listed' = NoListed
    /\ UNCHANGED <<model_cache, listing, gateway_vars>>

\* an admitted completion beside the model list
ModelsReceive == ReceiveFrom({Hdr(<<"B","e","a","r","e","r"," ","k","1">>)}, LimiterBodies)

ModelsInit ==
    /\ settings \in SettingsSet
    /\ GatewayIdle
    /\ RouteIdle
    /\ StreamIdle
    /\ ModelsIdle

ModelsNext ==
    \/ ListModels /\ UNCHANGED <<route_vars, stream_vars>>
    \/ \E t \in Listing : OllamaListed(t) /\ UNCHANGED <<route_vars, stream_vars>>
    \/ \E t \in Listing : OllamaListFails(t) /\ UNCHANGED <<route_vars, stream_vars>>
    \/ \E t \in Listing : VllmListed(t) /\ UNCHANGED <<route_vars, stream_vars>>
    \/ \E t \in Listing : VllmListFails(t) /\ UNCHANGED <<route_vars, stream_vars>>
    \/ MonoTick /\ UNCHANGED <<route_vars, stream_vars>>
    \/ ModelsReceive /\ UNCHANGED other_vars
    \/ \E r \in InFlight : AdapterReturn(r) /\ UNCHANGED other_vars

ModelsSpec == ModelsInit /\ [][ModelsNext]_vars

-----------------------------------------------------------------------------
(* Request bodies at the edge of the schemas: array prompts, empty and
   incomplete message lists *)

RequestReceive == ReceiveFrom({Hdr(<<"B","e","a","r","e","r"," ","k","1">>)}, RequestBodies)

RequestNext ==
    \/ RequestReceive /\ UNCHANGED other_vars
    \/ \E r \in InFlight : AdapterReturn(r) /\ UNCHANGED other_vars
    \/ \E r \in InFlight : AdapterFail(r) /\ UNCHANGED other_vars
    \/ Tick /\ UNCHANGED other_vars

RequestSpec == Init /\ [][RequestNext]_vars

----------------------------------------------------------------------------
(* The in-process limiter on its own: calls of check_and_consume and the
   clock *)

\* one call MemoryRateLimiter.check_and_consume(tok, rpm, rpd): the stored
\* window after it, and RateLimitError as the 429 it becomes
CheckAndConsume(tok) ==
    /\ tok \in DOMAIN settings.tokens_json
    /\ LET cfg == cfg_of(tok)
           res == check_and_consume(stored_window(tok), minute_bucket(now),
                                    day_bucket(now), cfg.rpm, cfg.rpd)
       IN /\ window' = (tok :> res.window) @@ window
          /\ IF res.error # ""
             THEN /\ out' = rate_limit_response(res.error, [NoCall EXCEPT !.token = tok])
                  /\ UNCHANGED history
             ELSE /\ out' = NoResp
                  /\ admitted_m' = [admitted_m EXCEPT ![tok] = @ + 1]
                  /\ admitted_d' = [admitted_d EXCEPT ![tok] = @ + 1]
    /\ UNCHANGED <<now, settings, redis, req, started>>

\* after construction, with one token, two tokens of limit 1 and 2, or two
\* tokens that both have room for several calls
WindowInit ==
    /\ now \in Times /\ \A t \in Times : now <= t
    /\ \E tj \in {OneToken, TwoTokens,
                   (TokA :> TokenConfig(TokA, RpmA, RpdA))
                       @@ (TokB :> TokenConfig(TokB, RpmB, RpdB))} :
          settings = Settings(OLLAMA, {OLLAMA}, "memory", tj)
    /\ window = <<>>
    /\ redis = <<>>
    /\ req = EmptyBag
    /\ out = NoResp
    /\ admitted_m = [tok \in Tokens |-> 0]
    /\ admitted_d = [tok \in Tokens |-> 0]
    /\ started = 0
    /\ RouteIdle /\ StreamIdle /\ ModelsIdle

WindowNext ==
    \/ \E tok \in Tokens : CheckAndConsume(tok) /\ UNCHANGED other_vars
    \/ Tick /\ UNCHANGED other_vars

\* time passes, and every token keeps calling
WindowSpec ==
    /\ WindowInit
    /\ [][WindowNext]_vars
    /\ WF_vars(Tick /\ UNCHANGED other_vars)
    /\ \A tok \in Tokens : WF_vars(CheckAndConsume(tok) /\ UNCHANGED other_vars)

----------------------------------------------------------------------------
(* Properties *)

Registered == DOMAIN settings.tokens_json

REMAINING_MINUTE == "X-RateLimit-Remaining-Minute"
REMAINING_DAY == "X-RateLimit-Remaining-Day"
LIMIT_MINUTE == "X-RateLimit-Limit-Minute"
LIMIT_DAY == "X-RateLimit-Limit-Day"

\* The stored counts of a token as they stand for the buckets of now
minute_count_now(tok) ==
    IF tok \in DOMAIN window /\ window[tok].minute_bucket = minute_bucket(now)
    THEN window[tok].minute_count ELSE 0

day_count_now(tok) ==
    IF tok \in DOMAIN window /\ window[tok].day_bucket = day_bucket(now)
    THEN window[tok].day_count ELSE 0

\* C1: with the in-process limiter and a clock that never goes back, the calls
\* of a token admitted while the minute bucket keeps one value are at most
\* rpm, and those admitted while the day bucket keeps one value at most rpd.
C1_BucketBound ==
    \A tok \in Registered :
        /\ admitted_m[tok] <= cfg_of(tok).rpm
        /\ admitted_d[tok] <= cfg_of(tok).rpd

\* The day bucket is full and a further call has just been denied
C1_Witness ==
    /\ settings.tokens_json = OneToken
    /\ admitted_d[TokA] = RpdA
    /\ out.status = 429

\* The step admitted a request of tok: the request went on to its adapter
\* call, or was answered 500 because its backend has no adapter
admitted_in_step(tok) ==
    \/ \E r \in BagToSet(req') :
          r.pc = "call" /\ r.token = tok /\ CopiesIn(r, req') > CopiesIn(r, req)
    \/ out'.status = 500 /\ out'.call.token = tok

\* The step ran a request past its admission: the adapter answered or
\* failed, the stream ended or broke, or the client went away
after_admission_step ==
    \/ out'.status \in {200, 502}
    \/ out' = NoResp /\ BagCardinality(req') < BagCardinality(req)

C2_Step ==
    /\ \A tok \in Registered :
          admitted_in_step(tok) =>
            /\ tok \in DOMAIN window'
            /\ window'[tok].minute_count = minute_count_now(tok) + 1
            /\ window'[tok].day_count = day_count_now(tok) + 1
    /\ after_admission_step => window' = window /\ redis' = redis

\* C2: the step that admits a request raises the minute count and the day
\* count of its token by exactly one each, and no later step of a request
\* (200, 502, end or failure of the stream, cancellation) changes a count.
C2_AdmissionCountsOnce == [][C2_Step]_vars

\* A request was admitted, its adapter call then failed, and the count of its
\* admission still stands
C2_Witness ==
    /\ out.status = 502
    /\ out.call.count_m >= 1
    /\ minute_count_now(out.call.token) = out.call.count_m

C3_Step ==
    out'.status = 429 =>
        LET tok == out'.call.token IN
        /\ tok \in DOMAIN window'
        /\ window'[tok].minute_count = minute_count_now(tok)
        /\ window'[tok].day_count = day_count_now(tok)
        /\ \/ minute_count_now(tok) >= cfg_of(tok).rpm
           \/ day_count_now(tok) >= cfg_of(tok).rpd

\* C3: a call the in-process limiter denies leaves the minute count and the
\* day count as they stood after the bucket rollover, and one of them had
\* reached its limit.
C3_DenialConsumesNothing == [][C3_Step]_vars

\* A denial for the daily limit while the minute count is below rpm
C3_Witness ==
    /\ out.status = 429
    /\ out.body.message = "daily limit reached"
    /\ minute_count_now(out.call.token) < cfg_of(out.call.token).rpm
    /\ minute_count_now(out.call.token) > 0

\* C4: a 200 response reports rpm minus the minute count taken right after
\* the request's own increment, which is rpm - k for the k-th request admitted
\* in the minute bucket, and likewise for the day.
C4_RemainingAtAdmission ==
    out.status = 200 =>
        LET cfg == cfg_of(out.call.token) IN
        /\ out.headers[REMAINING_MINUTE] = str_int(cfg.rpm - out.call.count_m)
        /\ out.headers[REMAINING_MINUTE] = str_int(cfg.rpm - out.call.k_m)
        /\ out.headers[REMAINING_DAY] = str_int(cfg.rpd - out.call.count_d)
        /\ out.headers[REMAINING_DAY] = str_int(cfg.rpd - out.call.k_d)

\* The second request admitted in a minute is answered while another request
\* of the same token is still in flight
C4_Witness ==
    /\ out.status = 200
    /\ out.call.k_m = 2
    /\ \E r \in InFlight : r.pc = "call" /\ r.token = out.call.token

has_rate_headers(resp) ==
    /\ {LIMIT_MINUTE, REMAINING_MINUTE, LIMIT_DAY, REMAINING_DAY} \subseteq DOMAIN resp.headers
    /\ resp.headers[LIMIT_MINUTE] = str_int(resp.call.rate_info.limit_minute)
    /\ resp.headers[REMAINING_MINUTE] = str_int(resp.call.rate_info.remaining_minute)
    /\ resp.headers[LIMIT_DAY] = str_int(resp.call.rate_info.limit_day)
    /\ resp.headers[REMAINING_DAY] = str_int(resp.call.rate_info.remaining_day)

\* C5: every response to an admitted request (200, and the 500 and 502 that
\* arise after admission) carries the four rate-limit headers with the values
\* of the result that admitted it.
C5_HeadersOnEveryAdmitted ==
    out.status \in {200, 500, 502} => has_rate_headers(out)

in_range(result, cfg) ==
    /\ result.limit_minute = cfg.rpm
    /\ result.limit_day = cfg.rpd
    /\ 0 <= result.remaining_minute /\ result.remaining_minute <= result.limit_minute
    /\ 0 <= result.remaining_day /\ result.remaining_day <= result.limit_day

\* C6: every RateLimitResult a limiter returned (in-process or Redis) has
\* 0 <= remaining_minute <= limit_minute and 0 <= remaining_day <= limit_day.
C6_RemainingInRange ==
    /\ \A r \in InFlight : r.pc = "call" => in_range(r.rate_info, cfg_of(r.token))
    /\ out.status = 200 => in_range(out.call.rate_info, cfg_of(out.call.token))

\* The Redis limiter returned a result with nothing left for the day
C6_Witness ==
    /\ settings.rate_limit_store = "redis"
    /\ \E r \in InFlight :
          r.pc = "call" /\ r.rate_info.remaining_day = 0 /\ r.rate_info.remaining_minute > 0

\* C7: a request is answered 429, with type rate_limit_exceeded, only when
\* the calls admitted in the current minute or day have reached the limit,
\* and a request answered 200 is among the first rpm of its minute.
C7_DeniedOnlyAtLimit ==
    /\ out.status = 429 =>
          /\ out.body.type = "rate_limit_exceeded"
          /\ \/ admitted_m[out.call.token] >= cfg_of(out.call.token).rpm
             \/ admitted_d[out.call.token] >= cfg_of(out.call.token).rpd
    /\ out.status = 200 => out.call.k_m <= cfg_of(out.call.token).rpm

\* rpm requests were admitted from empty counters and the next is denied
C7_Witness ==
    /\ settings.tokens_json = OneToken
    /\ out.status = 429
    /\ out.body.message = "minute limit reached"
    /\ admitted_m[TokA] = RpmA
    /\ admitted_d[TokA] = RpmA

\* C8: with requests of a token in flight at once, the in-process limiter is
\* at every moment in the state of a sequential counter run on the calls in
\* the order they executed: its counts for the buckets of now equal the calls
\* admitted in them, and each admitted call holds the count of its position.
C8_SequentialCounter ==
    /\ \A tok \in Registered :
          /\ minute_count_now(tok) = admitted_m[tok]
          /\ day_count_now(tok) = admitted_d[tok]
    /\ \A r \in InFlight :
          r.pc = "call" => r.count_m = r.k_m /\ r.count_d = r.k_d

\* A call admitted last in one minute is still in flight beside a call
\* admitted first in the next minute
C8_Witness ==
    \E r, q \in InFlight :
        /\ r.pc = "call" /\ q.pc = "call" /\ r.token = q.token
        /\ r.k_m = cfg_of(r.token).rpm
        /\ q.k_m = 1 /\ q.k_d = r.k_d + 1

C9_Step ==
    /\ out'.status \in {401, 422} => window' = window /\ redis' = redis /\ req' = req
    /\ \A r \in BagToSet(req') : r.token \in Registered /\ validate(r.body)

\* C9: a step that answers 401 or 422 leaves the limiter state of every
\* token as it was, and every request that went to admission carries a
\* registered token and a valid body.
C9_RejectedBeforeAdmission == [][C9_Step]_vars

\* A request is rejected for its body while the limiter holds counts
C9_Witness ==
    /\ out.status = 422
    /\ \E tok \in Registered : minute_count_now(tok) > 0

\* C10: a 401 response has the body {error: {message, type:
\* authentication_error}} and the header WWW-Authenticate: Bearer.
C10_Unauthorized ==
    out.status = 401 =>
        /\ out.body.kind = "error"
        /\ out.body.type = "authentication_error"
        /\ "WWW-Authenticate" \in DOMAIN out.headers
        /\ out.headers["WWW-Authenticate"] = <<"B","e","a","r","e","r">>

\* Whether the string s begins with p, and what follows p in it
begins(s, p) == Len(s) >= Len(p) /\ \A i \in 1..Len(p) : s[i] = p[i]
after(s, p) == [i \in 1..(Len(s) - Len(p)) |-> s[i + Len(p)]]

\* C11: a model that begins with ollama: or vllm: is routed to that backend
\* with everything after the first colon as backend_model; any other model
\* is routed to DEFAULT_BACKEND unchanged; the adapter invoked is the one of
\* the routed backend and its payload carries model = backend_model.
C11_Routing ==
    dispatch.pc \in {"call", "error", "done"} =>
        LET m == dispatch.model IN
        /\ begins(m, OLLAMA_PREFIX) =>
              dispatch.backend = OLLAMA /\ dispatch.payload.model = after(m, OLLAMA_PREFIX)
        /\ begins(m, VLLM_PREFIX) =>
              dispatch.backend = VLLM /\ dispatch.payload.model = after(m, VLLM_PREFIX)
        /\ ~begins(m, OLLAMA_PREFIX) /\ ~begins(m, VLLM_PREFIX) =>
              dispatch.backend = settings.default_backend /\ dispatch.payload.model = m
        /\ dispatch.pc # "error" => dispatch.adapter = dispatch.backend

\* A prefixed model with a later colon has reached the adapter of its prefix
C11_Witness ==
    /\ dispatch.pc = "call"
    /\ dispatch.model = VLLM_PREFIX \o <<"m", ":">>
    /\ dispatch.adapter = VLLM
    /\ dispatch.payload.model = <<"m", ":">>

\* C12: the model field of a chat completion response equals the model the
\* client sent, prefix included, for both adapters.
C12_ResponseModelEchoed ==
    dispatch.pc = "done" => dispatch.response_model = dispatch.model

\* Observed streams

Sentinels == {i \in 1..Len(iterator.events) : iterator.events[i] = sse_done}
FinishChunks ==
    {i \in 1..Len(iterator.events) : iterator.events[i].data.finish_reason.present}
DoneFrames == {i \in 1..Len(iterator.sent) : iterator.sent[i].done}
Terminated == iterator.pc \in {"done", "failed"}
EndsWithSentinel ==
    /\ iterator.events # <<>>
    /\ iterator.events[Len(iterator.events)] = sse_done

\* C13: a stream of either Ollama translator that is consumed to its end
\* holds exactly one [DONE] sentinel, as its last event, and before it at
\* least one chunk with a non-null finish_reason, whether the upstream sent a
\* done frame, frames after it, or ended without one.
C13_OneSentinelLast ==
    iterator.pc = "done" =>
        /\ Cardinality(Sentinels) = 1
        /\ EndsWithSentinel
        /\ \E i \in FinishChunks : i < Len(iterator.events)

C13_Witness ==
    /\ iterator.pc = "done"
    /\ iterator.read < Len(iterator.sent)
    /\ iterator.sent[iterator.read].done
    /\ Len(iterator.events) = 3

\* the upstream was read to its first done frame, or to its end, with no
\* line json.loads rejects and no read error before
FirstDone ==
    IF DoneFrames = {} THEN 0
    ELSE CHOOSE i \in DoneFrames : \A j \in DoneFrames : i <= j
ReadTo == IF FirstDone > 0 THEN FirstDone ELSE Len(iterator.sent)
ReadClean ==
    /\ \A i \in 1..ReadTo : iterator.sent[i].line # "garbage"
    /\ FirstDone > 0 \/ iterator.ending = "eof"
HasChunk == \E i \in 1..Len(iterator.events) : iterator.events[i] # sse_done

\* C14 as stated: a stream that emitted at least one chunk ends with the
\* [DONE] sentinel if and only if the backend sent a done:true frame.
C14_SentinelIffDoneFrame ==
    Terminated /\ HasChunk => (EndsWithSentinel <=> DoneFrames # {})

\* C14 as amended: a stream that emitted at least one chunk ends with the
\* [DONE] sentinel if and only if the upstream was read without failure up to
\* its first done:true frame or, when it sent none, up to its end.
C14_SentinelIffReadClean ==
    Terminated /\ HasChunk => (EndsWithSentinel <=> ReadClean)

C14_Witness ==
    /\ iterator.pc = "done"
    /\ DoneFrames = {}
    /\ iterator.sent # <<>>
    /\ EndsWithSentinel
    /\ Len(iterator.events) >= 3

\* C15 as stated: the number of chunks with a non-null finish_reason equals
\* the number of done:true frames the backend sent.
C15_FinishPerDoneFrame ==
    Terminated => Cardinality(FinishChunks) = Cardinality(DoneFrames)

\* C15 as amended: a stream carries exactly one chunk with a non-null
\* finish_reason when the upstream was read without failure to its first
\* done:true frame or to its end, none when reading or decoding failed
\* before, and never more than one.
C15_FinishOncePerStream ==
    /\ Cardinality(FinishChunks) <= 1
    /\ iterator.pc = "reading" => FinishChunks = {}
    /\ Terminated => Cardinality(FinishChunks) = (IF ReadClean THEN 1 ELSE 0)

C15_Witness ==
    /\ iterator.pc = "done"
    /\ Cardinality(DoneFrames) = 2
    /\ Cardinality(FinishChunks) = 1

\* C16: when reading or decoding an upstream frame fails, the stream ends
\* with the events it had: no [DONE] sentinel, no finish_reason chunk, and the
\* chunks emitted before are unchanged.
C16_Step ==
    iterator.pc = "reading" /\ iterator'.pc = "failed" =>
        /\ iterator'.events = iterator.events
        /\ \A i \in 1..Len(iterator'.events) :
              /\ iterator'.events[i] # sse_done
              /\ ~iterator'.events[i].data.finish_reason.present
C16_FailureEndsWithoutSentinel == [][C16_Step]_vars

C16_Witness ==
    /\ iterator.pc = "failed"
    /\ Len(iterator.events) = 2
    /\ iterator.sent[iterator.read] = GARBAGE

RECURSIVE before_done(_)
before_done(frames) ==
    IF frames = <<>> \/ Head(frames).done THEN <<>>
    ELSE <<Head(frames)>> \o before_done(Tail(frames))
RECURSIVE message_content(_)
message_content(frames) ==
    IF frames = <<>> THEN <<>>
    ELSE Head(frames).text \o message_content(Tail(frames))
RECURSIVE delta_content(_)
delta_content(events) ==
    IF events = <<>> THEN <<>>
    ELSE (IF Head(events).data.content.present THEN Head(events).data.content.value
          ELSE <<>>) \o delta_content(Tail(events))

\* C17: in a streamed chat response the concatenation of delta.content over
\* the emitted chunks equals, at every moment, the concatenation of
\* message.content over the frames read so far that precede the first
\* done:true frame, and for a finished stream that over all the frames the
\* backend sent before its first done:true frame.
C17_ContentInOrder ==
    iterator.kind = "chat" =>
        /\ delta_content(iterator.events) =
              message_content(before_done(SubSeq(iterator.sent, 1, iterator.read)))
        /\ iterator.pc = "done" =>
              delta_content(iterator.events) = message_content(before_done(iterator.sent))

C17_Witness ==
    /\ iterator.pc = "done"
    /\ iterator.kind = "chat"
    /\ iterator.sent = <<Frame(FALSE, <<"a">>, Absent), Frame(FALSE, <<"b">>, Absent),
                         Frame(TRUE, <<"b">>, Absent)>>
    /\ delta_content(iterator.events) = <<"a", "b">>

\* The Authorization header carries a registered token
BearerOf(tok) == <<"B","e","a","r","e","r"," ">> \o tok
ValidHeader(header) ==
    header.present /\ \E tok \in Registered : header.value = BearerOf(tok)

\* C18: a step of GET /v1/models leaves the limiter's counters of every token
\* as they were; its reply is 200 for a request with a valid token, whatever
\* the token's counters, and 401 for a request without one.
C18_Step ==
    /\ (listing' # listing \/ listed' # listed \/ model_cache' # model_cache) =>
          /\ window' = window
          /\ redis' = redis
    /\ listed'.status \in {0, 200, 401}
    /\ listed'.status = 200 => ValidHeader(listed'.header)
    /\ listed'.status = 401 => ~ValidHeader(listed'.header)
C18_ModelsNotRateLimited == [][C18_Step]_vars

C18_Witness ==
    /\ listed.status = 200
    /\ listed.header = Hdr(BearerOf(TokA))
    /\ TokA \in DOMAIN window
    /\ window[TokA].minute_bucket = minute_bucket(now)
    /\ window[TokA].minute_count >= cfg_of(TokA).rpm

\* a step in which a refresh calls list_models of an adapter
AdapterCalled ==
    \E t \in BagToSet(listing') :
        /\ t.pc \in {"ollama", "vllm"}
        /\ CopiesIn(t, listing') > CopiesIn(t, listing)
RefreshEnded == BagCardinality(listing') < BagCardinality(listing)

\* C19: proxy_models answers from the cache with no adapter call while
\* monotonic now < expiry, otherwise refreshes and sets the expiry to its
\* now + MODEL_CACHE_TTL * 1000; within one TTL window after a refresh no
\* adapter list_models call is made.
C19_Step ==
    /\ listed'.type = "cached" /\ listed' # listed =>
          /\ mono < model_cache.expires
          /\ listed'.data = model_cache.data
          /\ ~AdapterCalled
    /\ RefreshEnded =>
          /\ model_cache'.data = listed'.data
          /\ \E t \in Listing : model_cache'.expires = t.now + CACHE_MODELS_TTL * 1000
    /\ AdapterCalled => ~(mono < model_cache.expires)
C19_NoCallWithinTtl == [][C19_Step]_vars

\* the entries an adapter's list_models contributes to a refresh
contributed(outcome) == IF outcome.state = "ok" THEN outcome.entries ELSE <<>>
owned(data, owner) == {i \in 1..Len(data) : data[i].owned_by = owner}

\* C20: a refresh in which list_models of one adapter failed ends normally:
\* the list returned and cached holds exactly the entries of the adapters
\* that succeeded in this refresh, none of the failed adapter.
C20_RefreshFromSuccesses ==
    listed.type = "refreshed" =>
        /\ listed.status = 200
        /\ listed.data = contributed(listed.got.ollama) \o contributed(listed.got.vllm)
        /\ model_cache.data = listed.data
        /\ listed.got.ollama.state = "failed" => owned(listed.data, "ollama") = {}
        /\ listed.got.vllm.state = "failed" => owned(listed.data, "vllm") = {}

C20_Witness ==
    /\ listed.type = "refreshed"
    /\ listed.got.ollama.state = "failed"
    /\ listed.got.vllm.state = "ok"
    /\ owned(listed.before, "ollama") # {}
    /\ listed.data # <<>>
    /\ owned(listed.data, "ollama") = {}

\* the upstream entries that carry an id
RECURSIVE with_id(_)
with_id(data) ==
    IF data = <<>> THEN <<>>
    ELSE (IF Head(data).id.present /\ Head(data).id.value # <<>> THEN <<Head(data)>> ELSE <<>>)
         \o with_id(Tail(data))

\* C21: every entry of the aggregated list has an id that begins with ollama:
\* or vllm:; a vLLM entry whose id already begins with vllm: is kept as it
\* came and any other gets the prefix once; namespacing the namespaced vLLM
\* entries again changes nothing; Ollama entries come before vLLM entries.
C21_Namespaced ==
    listed.type = "refreshed" =>
        LET data == listed.data
            raw == with_id(listed.got.vllm.raw)
            mine == listed.got.vllm.entries
        IN
        /\ \A i \in 1..Len(data) :
              begins(data[i].id.value, OLLAMA_PREFIX) \/ begins(data[i].id.value, VLLM_PREFIX)
        /\ Len(mine) = Len(raw)
        /\ \A k \in 1..Len(raw) :
              IF begins(raw[k].id.value, VLLM_PREFIX)
              THEN mine[k] = raw[k]
              ELSE /\ mine[k].id.value = VLLM_PREFIX \o raw[k].id.value
                   /\ mine[k].owned_by = raw[k].owned_by
        /\ vllm_entries(mine) = mine
        /\ \A i \in 1..Len(data) : \A j \in 1..Len(data) :
              i < j /\ begins(data[i].id.value, VLLM_PREFIX) =>
                  ~begins(data[j].id.value, OLLAMA_PREFIX)

C21_Witness ==
    /\ listed.type = "refreshed"
    /\ listed.got.ollama.state = "ok"
    /\ listed.got.vllm.state = "ok"
    /\ Len(listed.data) = 3
    /\ \E k \in 1..Len(listed.got.vllm.raw) :
          begins(listed.got.vllm.raw[k].id.value, VLLM_PREFIX)

\* the step invokes the adapter method for the request r
invoked_in_step(r) == r.pc = "call" /\ CopiesIn(r, req') > CopiesIn(r, req)

\* C22: the adapter is invoked only in the step that admits the request, once;
\* a transport failure of that invocation is answered 502 with type
\* backend_error and the underlying message, the request ends there and no
\* adapter is invoked again for it.
C22_Step ==
    /\ \A r \in BagToSet(req') :
          invoked_in_step(r) =>
              /\ admitted_m'[r.token] = admitted_m[r.token] + 1
              /\ CopiesIn(r, req') = CopiesIn(r, req) + 1
              /\ BagCardinality(req') = BagCardinality(req) + 1
    /\ out'.status = 502 =>
          /\ out'.body = Detail("error", "transport", "backend_error", 502)
          /\ BagCardinality(req') = BagCardinality(req) - 1
          /\ \A r \in BagToSet(req') : ~invoked_in_step(r)
C22_NoRetry == [][C22_Step]_vars

C22_Witness ==
    /\ out.status = 502
    /\ out.body.type = "backend_error"
    /\ out.call.token \in Registered
    /\ out.call.k_m >= 1

\* C23: a request whose backend has no registered adapter is answered 500 with
\* type backend_error in the step that admitted it: the minute count and the
\* day count of its token went up by one each, and no adapter is invoked for
\* it; every adapter invocation is for an enabled backend.
C23_Step ==
    /\ out'.status = 500 =>
          LET tok == out'.call.token IN
          /\ out'.body = Detail("error", "backend not available", "backend_error", 0)
          /\ req' = req
          /\ tok \in DOMAIN window'
          /\ window'[tok].minute_count = minute_count_now(tok) + 1
          /\ window'[tok].day_count = day_count_now(tok) + 1
    /\ \A r \in BagToSet(req') : r.pc = "call" => r.backend \in settings.enabled
C23_NoAdapterAfterAdmission == [][C23_Step]_vars

C23_Witness ==
    /\ out.status = 500
    /\ out.body.type = "backend_error"
    /\ minute_count_now(out.call.token) = out.call.count_m
    /\ out.call.count_m >= 1
    /\ day_count_now(out.call.token) >= 1

\* the count Redis holds under a key, 0 for a key that is not there
key_count(store, key) == IF key \in DOMAIN store THEN store[key].count ELSE 0

\* C24: with the Redis limiter a call raises a key by exactly one at a time,
\* the minute key first; an admitted call has raised both keys and holds a
\* count within the limit of each, so that one lifetime of a key admits at
\* most its limit; a call denied on the day key has raised the minute key and
\* the denial leaves it raised; a call denied on the minute key never touches
\* the day key.
C24_Step ==
    settings.rate_limit_store = "redis" /\ now' = now =>
        /\ \A tok \in Registered :
              LET m0 == key_count(redis, minute_key(tok))
                  m1 == key_count(redis', minute_key(tok))
                  d0 == key_count(redis, day_key(tok))
                  d1 == key_count(redis', day_key(tok))
              IN /\ m1 \in {m0, m0 + 1}
                 /\ d1 \in {d0, d0 + 1}
                 /\ ~(m1 = m0 + 1 /\ d1 = d0 + 1)
        /\ \A r \in BagToSet(req') :
              r.pc = "call" =>
                  /\ 1 <= r.count_m /\ r.count_m <= cfg_of(r.token).rpm
                  /\ 1 <= r.count_d /\ r.count_d <= cfg_of(r.token).rpd
        /\ out'.status = 429 /\ out' # out =>
              LET tok == out'.call.token IN
              IF out'.call.count_d = -1
              THEN /\ out'.call.count_m > cfg_of(tok).rpm
                   /\ key_count(redis', day_key(tok)) = key_count(redis, day_key(tok))
              ELSE /\ 1 <= out'.call.count_m /\ out'.call.count_m <= cfg_of(tok).rpm
                   /\ out'.call.count_d > cfg_of(tok).rpd
                   /\ key_count(redis', minute_key(tok)) = key_count(redis, minute_key(tok))
C24_TwoKeys == [][C24_Step]_vars

\* a call is denied on the day key while the minute key holds its unit
C24_Witness ==
    /\ settings.rate_limit_store = "redis"
    /\ out.status = 429
    /\ out.call.count_d > cfg_of(out.call.token).rpd
    /\ out.call.count_m >= 1
    /\ key_count(redis, minute_key(out.call.token)) >= out.call.count_m

\* C25: a completion request with an array prompt whose model routes to
\* Ollama is answered 400 with type invalid_request_error, and no such request
\* goes on to the Ollama adapter.
C25_ArrayPromptRejected ==
    \A r \in InFlight :
        r.pc = "call" /\ r.body.endpoint = "completions" /\ r.backend = OLLAMA =>
            r.body.content.kind # "list"

well_formed(message) == {"role", "content"} \subseteq message

\* C26: a chat request whose messages list is empty, or holds a message
\* without role or content, is answered 400 or 422 with the envelope
\* {error: {message, type: invalid_request_error}} and goes neither to the
\* limiter nor to an adapter.
C26_Step ==
    /\ \A r \in BagToSet(req') :
          r.body.endpoint = "chat" =>
              /\ r.body.content.items # <<>>
              /\ \A i \in 1..Len(r.body.content.items) : well_formed(r.body.content.items[i])
    /\ out'.status \in {400, 422} =>
          /\ out'.body.kind = "error"
          /\ out'.body.type = "invalid_request_error"
          /\ window' = window
          /\ req' = req
C26_MessagesValidated == [][C26_Step]_vars

\* C27: a client disconnect after the adapter opened the upstream response
\* releases the upstream connection, whether it comes before the first chunk
\* is pulled from the iterator or between chunks. A cancelled stream takes no
\* further step, so the response it leaves open stays open forever.
C27_DisconnectReleasesUpstream ==
    iterator.pc = "cancelled" => iterator.upstream = "closed"

\* the JSON frames among the lines read so far that precede the first
\* done:true frame
is_frame(line) == line.line = "json"
frames_read == before_done(SelectSeq(SubSeq(iterator.sent, 1, iterator.read), is_frame))
RoleChunks == {i \in 1..Len(iterator.events) : iterator.events[i].data.role}
\* the chunks that are neither a finish chunk nor the sentinel
DeltaChunks ==
    {i \in 1..Len(iterator.events) :
        /\ iterator.events[i] # sse_done
        /\ ~iterator.events[i].data.finish_reason.present}

\* C28: in a translated chat stream delta.role is in exactly one chunk, the
\* one emitted for the first frame that is not done, which carries that
\* frame's content when it is not empty; a later frame that is not done emits
\* a chunk, without role, exactly when its content is not empty; a stream
\* whose first frame is done:true, or whose upstream is empty, is the finish
\* chunk with an empty delta and then [DONE].
C28_RoleOnce ==
    iterator.kind = "chat" =>
        /\ frames_read = <<>> => RoleChunks = {} /\ DeltaChunks = {}
        /\ frames_read # <<>> =>
              /\ RoleChunks = {1}
              /\ iterator.events[1].data.content =
                    (IF frames_read[1].text # <<>> THEN Field(frames_read[1].text)
                     ELSE NoField)
              /\ ~iterator.events[1].data.finish_reason.present
              /\ Cardinality(DeltaChunks) =
                    1 + Cardinality({i \in 2..Len(frames_read) :
                                        frames_read[i].text # <<>>})
              /\ \A i \in DeltaChunks : i > 1 => iterator.events[i].data.content.present
        /\ iterator.pc = "done" /\ frames_read = <<>> =>
              /\ Len(iterator.events) = 2
              /\ iterator.events[1].data.object = CHAT_CHUNK
              /\ ~iterator.events[1].data.role
              /\ ~iterator.events[1].data.content.present
              /\ iterator.events[1].data.finish_reason.present
              /\ iterator.events[2] = sse_done

\* a role chunk without content, a later frame with empty content that emits
\* nothing, then a frame with content
C28_Witness ==
    /\ iterator.pc = "done"
    /\ iterator.kind = "chat"
    /\ iterator.sent = <<Frame(FALSE, <<>>, Absent), Frame(FALSE, <<>>, Absent),
                         Frame(FALSE, <<"a">>, Absent)>>
    /\ Len(iterator.events) = 4

\* C29: in a translated completions stream the i-th chunk is the text_completion
\* chunk of the i-th frame that is not done: its text is the frame's response,
\* also when that is empty, and its finish_reason is null; a finished stream
\* has one more chunk before [DONE], with empty text and finish_reason equal
\* to the done frame's done_reason, or "stop" when that is missing or empty
\* or the upstream ended without a done frame.
C29_ChunkPerFrame ==
    iterator.kind = "completions" =>
        /\ DeltaChunks = 1..Len(frames_read)
        /\ \A i \in 1..Len(frames_read) :
              iterator.events[i] =
                  sse_format(Chunk(TEXT_COMPLETION, FALSE, Field(frames_read[i].text), Absent))
        /\ iterator.pc = "done" =>
              LET last == iterator.sent[iterator.read]
                  reason == IF iterator.read > 0 /\ last.done
                               /\ last.done_reason.present /\ last.done_reason.value # ""
                            THEN last.done_reason.value ELSE "stop"
              IN /\ Len(iterator.events) = Len(frames_read) + 2
                 /\ iterator.events[Len(frames_read) + 1] =
                       sse_format(Chunk(TEXT_COMPLETION, FALSE, Field(<<>>), Given(reason)))
                 /\ iterator.events[Len(frames_read) + 2] = sse_done

\* a frame with an empty response, a frame with text, a done frame with a reason
C29_Witness ==
    /\ iterator.pc = "done"
    /\ iterator.kind = "completions"
    /\ iterator.sent = <<Frame(FALSE, <<>>, Absent), Frame(FALSE, <<"a">>, Absent),
                         Frame(TRUE, <<>>, Given("length"))>>
    /\ Len(iterator.events) = 4

LastTime == CHOOSE t \in Times : \A u \in Times : u <= t
denied(tok) == out.status = 429 /\ out.call.token = tok

C30_Step ==
    now' = now =>
        \A tok \in Registered :
            LET w == stored_window(tok)
                cfg == cfg_of(tok)
                called == \/ out'.status = 429 /\ out'.call.token = tok
                          \/ admitted_m'[tok] # admitted_m[tok]
                admitted == admitted_m'[tok] = admitted_m[tok] + 1
            IN called =>
                /\ w.minute_count >= cfg.rpm /\ w.minute_bucket # minute_bucket(now)
                      /\ w.day_count < cfg.rpd
                   => admitted
                /\ w.day_count >= cfg.rpd /\ w.day_bucket = day_bucket(now)
                   => ~admitted
                /\ w.day_count >= cfg.rpd /\ w.day_bucket # day_bucket(now)
                   => admitted

\* C30: with the in-process limiter, the first call of a token in a minute
\* bucket other than the stored one is admitted when the stored minute count
\* had reached rpm and the day count is below rpd; a token whose day count
\* has reached rpd is denied by every call in that day bucket, whatever the
\* minute bucket, and admitted by its first call in another day bucket; and a
\* token that is denied before the clock has reached its last value, and that
\* keeps calling while time passes, is admitted later.
C30_AdmittedAgain ==
    /\ [][C30_Step]_vars
    /\ \A tok \in Tokens : \A t \in Times :
          (denied(tok) /\ now = t /\ t < LastTime) ~> (now > t /\ admitted_m[tok] > 0)

\* The token filled minute 0, was admitted again in minute 1 until its day
\* count reached rpd, and is denied there for the daily limit
C30_Witness ==
    /\ settings.tokens_json = OneToken
    /\ now = MINUTE + 59
    /\ denied(TokA)
    /\ out.body.message = "daily limit reached"
    /\ window[TokA].minute_bucket = 1
    /\ window[TokA].minute_count = RpdA - RpmA
    /\ window[TokA].day_count = RpdA

\* the call that created the key is still on its way to the EXPIRE
expire_pending(tok, pc) == \E r \in InFlight : r.pc = pc /\ r.token = tok

\* C31: with the Redis limiter every counter key that holds a value has its
\* TTL, set when the value became 1, unless the call whose INCR returned 1 is
\* still in flight before its EXPIRE; this under every interleaving of
\* concurrent calls and a cancellation at every await. A key left without
\* TTL never expires, so its token stays denied once the count has passed
\* the limit.
C31_EveryKeyExpires ==
    settings.rate_limit_store = "redis" =>
        \A tok \in Registered :
            /\ minute_key(tok) \in DOMAIN redis /\ redis[minute_key(tok)].exp = -1
                  => expire_pending(tok, "expire_minute")
            /\ day_key(tok) \in DOMAIN redis /\ redis[day_key(tok)].exp = -1
                  => expire_pending(tok, "expire_day")

\* C32: with the in-process limiter the stored window of every token has
\* minute_count <= day_count after every call, admitted or denied, in every
\* minute and day bucket the clock enters.
C32_MinuteWithinDay ==
    \A tok \in DOMAIN window : window[tok].minute_count <= window[tok].day_count

\* an admitted call in the second minute of a day whose first minute was
\* filled: the minute count started again, the day count did not
C32_Witness ==
    /\ settings.tokens_json = OneToken
    /\ now = MINUTE + 59
    /\ out = NoResp
    /\ TokA \in DOMAIN window
    /\ window[TokA].minute_bucket = 1
    /\ window[TokA].minute_count = 1
    /\ window[TokA].day_count = RpmA + 1

\* the step is a step of a request of tok: the request entered, moved on or
\* left, or the step answered it
acts_for(tok) ==
    \/ \E r \in BagToSet(req) \cup BagToSet(req') :
          r.token = tok /\ CopiesIn(r, req) # CopiesIn(r, req')
    \/ out'.status # 0 /\ out'.call.token = tok

\* what the limiters hold for tok
window_of(w, tok) == IF tok \in DOMAIN w THEN <<w[tok]>> ELSE <<>>
keys_of(store, tok) ==
    [k \in {minute_key(tok), day_key(tok)} \cap DOMAIN store |-> store[k]]

C33_Step ==
    /\ DOMAIN window \subseteq DOMAIN window'
    /\ now' = now =>
          \A tok \in Registered :
              /\ ~acts_for(tok) =>
                    /\ window_of(window', tok) = window_of(window, tok)
                    /\ keys_of(redis', tok) = keys_of(redis, tok)
              /\ out'.status = 429 /\ out'.call.token = tok =>
                    IF settings.rate_limit_store = "memory"
                    THEN \/ window'[tok].minute_count >= cfg_of(tok).rpm
                         \/ window'[tok].day_count >= cfg_of(tok).rpd
                    ELSE \/ key_count(redis', minute_key(tok)) > cfg_of(tok).rpm
                         \/ key_count(redis', day_key(tok)) > cfg_of(tok).rpd

\* C33: a step of a request of one token, admitted or denied, leaves what
\* the limiter holds for every other token as it was (the stored window of
\* the in-process limiter, the two keys of the Redis limiter); a stored
\* window is never removed; and a denial of a token rests on that token's own
\* counts, so that a token that used up its limits denies no other token.
C33_TokenIsolation == [][C33_Step]_vars

\* The first token has used up its limit and is denied while the second
\* token holds a window of its own with room left
C33_Witness ==
    /\ settings.rate_limit_store = "memory"
    /\ settings.tokens_json = TwoTokens
    /\ out.status = 429 /\ out.call.token = TokA
    /\ DOMAIN window = {TokA, TokB}
    /\ window[TokA].minute_count = 1
    /\ window[TokB].minute_count = 1
    /\ window[TokB].minute_count < RpmB

\* C34: under overlapping refreshes of the model list the cached expiry
\* never decreases: a refresh that read the clock earlier and finished later
\* does not put its older expiry and list over those of a refresh that read
\* the clock after it.
C34_Step == model_cache'.expires >= model_cache.expires
C34_ExpiryNeverDecreases == [][C34_Step]_vars

====
